---------------------------- MODULE Spec2Model ----------------------------
(***************************************************************************)
(* Model of app.py (AI Summary Generator): the prompt resolver, the        *)
(* summary client's result handling, the structural validator and the     *)
(* concurrent batch processor process_data built on ThreadPoolExecutor.    *)
(*                                                                         *)
(* Strings are sequences of one-character tokens; EM stands for the        *)
(* em dash U+2014.                                                         *)
(***************************************************************************)
EXTENDS Integers, Sequences, FiniteSets, TLC

VARIABLES
    \* ---- process_data (one call) ----
    total_rows,       \* len(df)
    cpus,             \* os.cpu_count() of the host
    status_callback,  \* TRUE iff a callback was supplied
    hung,             \* the row whose completion request never returns, 0 if none
    pc,               \* per row: where its unit of work stands
    resp,             \* per row: what the completion service answered
    summary,          \* per row: local variable summary of process_with_progress
    completed,        \* the nonlocal counter of process_data
    reg,              \* per row: value of completed loaded by "completed += 1"
    arg,              \* per row: value of "completed-1" computed for the call
    seen,             \* per row: units that had stored their increment when arg was loaded
    cbLog,            \* the calls status_callback received, in order
    takes,            \* per row: times a worker took the row from the queue
    requests,         \* per row: completion requests issued
    sets,             \* per row: times the row's future got its result
    formatted_summaries, \* list(results) as collected so far
    pcMain,           \* the calling thread
    \* ---- generate_summary / validate_summary on one text ----
    vs_pc, vs_failed, vs_text, vs_summary, vs_valid, vs_result,
    \* ---- get_prompt_for_tag on one (tag, table) ----
    gp_pc, gp_tag, gp_table, gp_result

batchVars == <<total_rows, cpus, status_callback, hung, pc, resp, summary,
               completed, reg, arg, seen, cbLog, takes, requests, sets,
               formatted_summaries, pcMain>>
valVars == <<vs_pc, vs_failed, vs_text, vs_summary, vs_valid, vs_result>>
promptVars == <<gp_pc, gp_tag, gp_table, gp_result>>
vars == <<batchVars, valVars, promptVars>>

-----------------------------------------------------------------------------
(* Bounds *)

MaxRows == 2
PoolRows == 11
MaxFrags == 4

-----------------------------------------------------------------------------
(* Text *)

EM == "EM"

RECURSIVE Concat(_)
Concat(ss) == IF ss = <<>> THEN <<>> ELSE Head(ss) \o Concat(Tail(ss))

\* Python's "sub in s" on strings
Contains(s, sub) ==
    \E i \in 1..(Len(s) - Len(sub) + 1) : SubSeq(s, i, i + Len(sub) - 1) = sub

StartsWith(s, p) == Len(s) >= Len(p) /\ SubSeq(s, 1, Len(p)) = p

IsSpace(c) == c = " "

RECURSIVE LStrip(_)
LStrip(s) == IF s # <<>> /\ IsSpace(Head(s)) THEN LStrip(Tail(s)) ELSE s

RECURSIVE RStrip(_)
RStrip(s) ==
    IF s # <<>> /\ IsSpace(s[Len(s)]) THEN RStrip(SubSeq(s, 1, Len(s) - 1)) ELSE s

\* str.strip()
Strip(s) == RStrip(LStrip(s))

ErrorPrefix == <<"E", "r", "r", "o", "r", ":", " ">>

Sentinel ==
    <<"I","n","v","a","l","i","d"," ","s","u","m","m","a","r","y"," ",
      "f","o","r","m","a","t","."," ","P","l","e","a","s","e"," ",
      "t","r","y"," ","a","g","a","i","n",".">>


-----------------------------------------------------------------------------
(* get_prompt_for_tag *)

\* A template: whether it contains "{description}", "{url}", and any
\* other replacement field that str.format cannot fill.
DEFAULT_PROMPT_TEMPLATE ==
    [name |-> "DEFAULT", desc |-> TRUE, url |-> TRUE, other |-> FALSE]

None == "<None>"
NaN == "<NaN>"

\* Python truth value of a cell of the tag column (None, NaN or a string)
TagTruthy(tag) == tag # None /\ tag # ""

\* Python truth value of a dict
DictTruthy(d) == DOMAIN d # {}

GetPromptNoTagTest(tag, tag_prompts) ==
    IF DictTruthy(tag_prompts) /\ tag \in DOMAIN tag_prompts
    THEN tag_prompts[tag]
    ELSE DEFAULT_PROMPT_TEMPLATE

get_prompt_for_tag(tag, tag_prompts) ==
    IF TagTruthy(tag) /\ DictTruthy(tag_prompts) /\ tag \in DOMAIN tag_prompts
    THEN tag_prompts[tag]
    ELSE DEFAULT_PROMPT_TEMPLATE

-----------------------------------------------------------------------------
(* generate_summary *)

\* Lines 123-128: "format" when both placeholders are present, which raises
\* on any other replacement field; otherwise the data is appended.
BuildPrompt(prompt_template) ==
    IF prompt_template.desc /\ prompt_template.url
    THEN IF prompt_template.other THEN "raise" ELSE "formatted"
    ELSE "appended"

\* Lines 130-142: the stripped content, or "Error: " and the message.
RequestResult(failed, text) ==
    IF failed THEN ErrorPrefix \o text ELSE Strip(text)

-----------------------------------------------------------------------------
(* validate_summary *)

LB == "["
RB == "]"
LP == "("
RP == ")"
STAR == "*"

ValidateNoBold(s) ==
    IF ~(Contains(s, <<LB>>) /\ Contains(s, <<RB, LP>>) /\ Contains(s, <<RP>>))
    THEN FALSE
    ELSE IF ~Contains(s, <<" ", EM, " ">>)
    THEN FALSE
    ELSE TRUE

ValidateNoLink(s) ==
    IF ~Contains(s, <<" ", EM, " ">>)
    THEN FALSE
    ELSE IF ~Contains(s, <<STAR, STAR>>)
    THEN FALSE
    ELSE TRUE

validate_summary(s) ==
    IF ~(Contains(s, <<LB>>) /\ Contains(s, <<RB, LP>>) /\ Contains(s, <<RP>>))
    THEN FALSE
    ELSE IF ~Contains(s, <<" ", EM, " ">>)
    THEN FALSE
    ELSE IF ~Contains(s, <<STAR, STAR>>)
    THEN FALSE
    ELSE TRUE

\* process_single_row, lines 190-193
Finish(s, valid) == IF ~valid THEN Sentinel ELSE s

-----------------------------------------------------------------------------
(* process_data: inputs *)

Rows == 1..total_rows

\* hosts the batch may run on (os.cpu_count())
CpuCounts == {1, 8}

Min(a, b) == IF a <= b THEN a ELSE b

SingleWorker(n) == 1

\* ThreadPoolExecutor() without max_workers: min(32, os.cpu_count() + 4)
DefaultMaxWorkers(n) == Min(32, n + 4)

FREEFORM == [name |-> "News", desc |-> FALSE, url |-> FALSE, other |-> TRUE]
BADFIELD == [name |-> "Bad", desc |-> TRUE, url |-> TRUE, other |-> TRUE]

\* a tag_prompts.csv with one freeform prompt and one prompt that has both
\* placeholders and a further replacement field
BatchTable == [t \in {"News", "Bad"} |-> IF t = "News" THEN FREEFORM ELSE BADFIELD]

RowTags == {None, "News", "Bad"}

\* what the completion service may answer for row i: a well-formed summary
\* naming the row, an ill-formed one, or an exception with a message
ValidText(i) ==
    <<LB, "T", ToString(i), RB, LP, "U", RP, " ", EM, " ", STAR, STAR, "B", STAR, STAR>>
InvalidText(i) == <<"T", ToString(i)>>
Answers(i) ==
    { [failed |-> FALSE, text |-> ValidText(i)],
      [failed |-> FALSE, text |-> InvalidText(i)],
      [failed |-> TRUE, text |-> <<"4", "0", "1">>] }
GoodAnswers(i) == { [failed |-> FALSE, text |-> ValidText(i)] }

NoAnswer == [failed |-> FALSE, text |-> <<>>]

\* generate_summary's return value followed by lines 190-193
SummaryOf(answer) ==
    Finish(RequestResult(answer.failed, answer.text),
           validate_summary(RequestResult(answer.failed, answer.text)))

-----------------------------------------------------------------------------
(* process_data: worker threads *)

BusyPcs == {"request", "incr_load", "incr_store", "arg_load", "call"}
Busy == Cardinality({j \in Rows : pc[j] \in BusyPcs})
InFlight == Cardinality({j \in Rows : pc[j] = "request"})
Stored == Cardinality({j \in Rows : pc[j] \in {"arg_load", "call"}
                                      \/ (pc[j] = "done" /\ status_callback)})

RetryInvalid(s, cb) ==
    IF s = Sentinel THEN "queued" ELSE IF cb THEN "incr_load" ELSE "done"

\* process_with_progress after process_single_row returned: lines 222-227
AfterRow(s, cb) == IF cb THEN "incr_load" ELSE "done"

\* update_progress shows current + 1 of total
Shown(current) == current + 1

\* A worker takes the head of the work queue and runs process_single_row up
\* to the completion request (lines 183-131).
Start(i, tag) ==
    /\ pc[i] = "queued"
    /\ \A j \in Rows : j < i => pc[j] # "queued"
    /\ Busy < DefaultMaxWorkers(cpus)
    /\ takes' = [takes EXCEPT ![i] = @ + 1]
    /\ IF BuildPrompt(get_prompt_for_tag(tag, BatchTable)) = "raise"
       THEN /\ pc' = [pc EXCEPT ![i] = "raised"]
            /\ UNCHANGED requests
       ELSE /\ pc' = [pc EXCEPT ![i] = "request"]
            /\ requests' = [requests EXCEPT ![i] = @ + 1]
    /\ UNCHANGED <<valVars, promptVars, total_rows, cpus, status_callback, hung, resp, summary,
                   completed, reg, arg, seen, cbLog, sets,
                   formatted_summaries, pcMain>>

\* The completion request returns or raises; generate_summary returns,
\* validate_summary runs (lines 140-142, 190-193, 220-223).
Return(i, answer) ==
    /\ pc[i] = "request"
    /\ i # hung
    /\ resp' = [resp EXCEPT ![i] = answer]
    /\ summary' = [summary EXCEPT ![i] = SummaryOf(answer)]
    /\ pc' = [pc EXCEPT ![i] = AfterRow(SummaryOf(answer), status_callback)]
    /\ sets' = [sets EXCEPT ![i] =
                    IF AfterRow(SummaryOf(answer), status_callback) = "done"
                    THEN @ + 1 ELSE @]
    /\ UNCHANGED <<valVars, promptVars, total_rows, cpus, status_callback, hung, completed, reg,
                   arg, seen, cbLog, takes, requests, formatted_summaries,
                   pcMain>>

\* "completed += 1", the load
IncrLoad(i) ==
    /\ pc[i] = "incr_load"
    /\ reg' = [reg EXCEPT ![i] = completed]
    /\ pc' = [pc EXCEPT ![i] = "incr_store"]
    /\ UNCHANGED <<valVars, promptVars, total_rows, cpus, status_callback, hung, resp, summary,
                   completed, arg, seen, cbLog, takes, requests, sets,
                   formatted_summaries, pcMain>>

\* "completed += 1", the store
IncrStore(i) ==
    /\ pc[i] = "incr_store"
    /\ completed' = reg[i] + 1
    /\ reg' = [reg EXCEPT ![i] = 0]
    /\ pc' = [pc EXCEPT ![i] = "arg_load"]
    /\ UNCHANGED <<valVars, promptVars, total_rows, cpus, status_callback, hung, resp, summary,
                   arg, seen, cbLog, takes, requests, sets,
                   formatted_summaries, pcMain>>

\* the argument "completed-1" of the call is evaluated
ArgLoad(i) ==
    /\ pc[i] = "arg_load"
    /\ arg' = [arg EXCEPT ![i] = completed - 1]
    /\ seen' = [seen EXCEPT ![i] = Stored]
    /\ pc' = [pc EXCEPT ![i] = "call"]
    /\ UNCHANGED <<valVars, promptVars, total_rows, cpus, status_callback, hung, resp, summary,
                   completed, reg, cbLog, takes, requests, sets,
                   formatted_summaries, pcMain>>

\* status_callback(completed-1, total_rows) runs; the summary is returned
Call(i) ==
    /\ pc[i] = "call"
    /\ cbLog' = Append(cbLog, [row |-> i, current |-> arg[i],
                               total |-> total_rows, seen |-> seen[i]])
    /\ arg' = [arg EXCEPT ![i] = 0]
    /\ seen' = [seen EXCEPT ![i] = 0]
    /\ pc' = [pc EXCEPT ![i] = "done"]
    /\ sets' = [sets EXCEPT ![i] = @ + 1]
    /\ UNCHANGED <<valVars, promptVars, total_rows, cpus, status_callback, hung, resp, summary,
                   completed, reg, takes, requests, formatted_summaries,
                   pcMain>>

-----------------------------------------------------------------------------
(* process_data: the calling thread, list(executor.map(...)) *)

CompletionOrder(n, ready) ==
    IF ready = {} THEN n + 1 ELSE CHOOSE j \in ready : \A k \in ready : k <= j

\* the future whose result executor.map yields next: input order
NextResult(n, ready) == n + 1

Ready == {j \in Rows : pc[j] \in {"done", "raised"}}

MainCollect ==
    /\ pcMain = "collect"
    /\ Len(formatted_summaries) < total_rows
    /\ LET k == NextResult(Len(formatted_summaries), Ready) IN
         /\ k \in Rows
         /\ pc[k] = "done"
         /\ formatted_summaries' = Append(formatted_summaries, summary[k])
    /\ UNCHANGED <<valVars, promptVars, total_rows, cpus, status_callback, hung, pc, resp, summary,
                   completed, reg, arg, seen, cbLog, takes, requests, sets,
                   pcMain>>

\* the next future holds an exception: it is re-raised, the futures still
\* queued are cancelled, and the with block waits for the running ones
MainFail ==
    /\ pcMain = "collect"
    /\ Len(formatted_summaries) < total_rows
    /\ pc[Len(formatted_summaries) + 1] = "raised"
    /\ pc' = [j \in Rows |-> IF pc[j] = "queued" THEN "cancelled" ELSE pc[j]]
    /\ pcMain' = "unwinding"
    /\ UNCHANGED <<valVars, promptVars, total_rows, cpus, status_callback, hung, resp, summary,
                   completed, reg, arg, seen, cbLog, takes, requests, sets,
                   formatted_summaries>>

MainRaise ==
    /\ pcMain = "unwinding"
    /\ Busy = 0
    /\ pcMain' = "raised"
    /\ UNCHANGED <<valVars, promptVars, total_rows, cpus, status_callback, hung, pc, resp, summary,
                   completed, reg, arg, seen, cbLog, takes, requests, sets,
                   formatted_summaries>>

MainReturn ==
    /\ pcMain = "collect"
    /\ Len(formatted_summaries) = total_rows
    /\ pcMain' = "returned"
    /\ UNCHANGED <<valVars, promptVars, total_rows, cpus, status_callback, hung, pc, resp, summary,
                   completed, reg, arg, seen, cbLog, takes, requests, sets,
                   formatted_summaries>>

-----------------------------------------------------------------------------
(* Specifications *)

ValIdle ==
    /\ vs_pc = "off" /\ vs_failed = FALSE /\ vs_text = <<>>
    /\ vs_summary = <<>> /\ vs_valid = FALSE /\ vs_result = <<>>

PromptIdle ==
    /\ gp_pc = "off" /\ gp_tag = None /\ gp_table = <<>>
    /\ gp_result = DEFAULT_PROMPT_TEMPLATE

BatchStart(n) ==
    /\ total_rows = n
    /\ pc = [j \in 1..n |-> "queued"]
    /\ resp = [j \in 1..n |-> NoAnswer]
    /\ summary = [j \in 1..n |-> <<>>]
    /\ completed = 0
    /\ reg = [j \in 1..n |-> 0]
    /\ arg = [j \in 1..n |-> 0]
    /\ seen = [j \in 1..n |-> 0]
    /\ cbLog = <<>>
    /\ takes = [j \in 1..n |-> 0]
    /\ requests = [j \in 1..n |-> 0]
    /\ sets = [j \in 1..n |-> 0]
    /\ formatted_summaries = <<>>
    /\ pcMain = "collect"

Init ==
    /\ \E n \in 0..MaxRows : BatchStart(n)
    /\ cpus \in CpuCounts
    /\ status_callback \in BOOLEAN
    /\ hung \in 0..total_rows
    /\ ValIdle
    /\ PromptIdle

Next ==
    \/ \E i \in Rows, tag \in RowTags : Start(i, tag)
    \/ \E i \in Rows : \E answer \in Answers(i) : Return(i, answer)
    \/ \E i \in Rows : IncrLoad(i)
    \/ \E i \in Rows : IncrStore(i)
    \/ \E i \in Rows : ArgLoad(i)
    \/ \E i \in Rows : Call(i)
    \/ MainCollect
    \/ MainFail
    \/ MainRaise
    \/ MainReturn

Spec == Init /\ [][Next]_vars

\* Thread scheduling is fair to every worker thread and to the caller, and
\* every completion request except the hung one returns.
WorkerStep(i) ==
    /\ i \in Rows
    /\ \/ \E tag \in RowTags : Start(i, tag)
       \/ \E answer \in Answers(i) : Return(i, answer)
       \/ IncrLoad(i)
       \/ IncrStore(i)
       \/ ArgLoad(i)
       \/ Call(i)

MainStep == MainCollect \/ MainFail \/ MainRaise \/ MainReturn

\* A batch in which one row's request hangs: list(results) never gets past
\* that row, so process_data does not return.
HangInit == Init /\ hung # 0

HangNext ==
    \/ \E i \in Rows, tag \in RowTags : Start(i, tag)
    \/ \E i \in Rows : \E answer \in Answers(i) : Return(i, answer)
    \/ \E i \in Rows : IncrLoad(i)
    \/ \E i \in Rows : IncrStore(i)
    \/ \E i \in Rows : ArgLoad(i)
    \/ \E i \in Rows : Call(i)
    \/ MainCollect
    \/ MainFail
    \/ MainRaise

FairSpec ==
    /\ HangInit
    /\ [][HangNext]_vars
    /\ \A i \in 1..MaxRows : WF_vars(WorkerStep(i))
    /\ WF_vars(MainStep)

\* ---- a large batch of well-formed rows, no callback ----
BatchIdle ==
    /\ BatchStart(0) /\ cpus = 1 /\ status_callback = FALSE /\ hung = 0

PoolInit ==
    /\ BatchStart(PoolRows)
    /\ cpus \in CpuCounts
    /\ status_callback = FALSE
    /\ hung = 0
    /\ ValIdle
    /\ PromptIdle

PoolNext ==
    \/ \E i \in Rows : Start(i, None)
    \/ \E i \in Rows : \E answer \in GoodAnswers(i) : Return(i, answer)
    \/ MainCollect
    \/ MainReturn

PoolSpec == PoolInit /\ [][PoolNext]_vars

\* ---- generate_summary's result, validate_summary and the replacement ----
Fragments ==
    { <<LB, "T">>, <<RB, LP, "U", RP>>, <<RP>>, <<" ", EM, " ">>, <<EM>>,
      <<" ">>, <<STAR, STAR>>, <<STAR>> }

Texts == { Concat(fs) : fs \in UNION { [1..n -> Fragments] : n \in 0..MaxFrags } }

VsInit ==
    /\ vs_pc = "input"
    /\ vs_failed \in BOOLEAN
    /\ vs_text \in Texts
    /\ vs_summary = <<>> /\ vs_valid = FALSE /\ vs_result = <<>>
    /\ BatchIdle
    /\ PromptIdle

VsGenerate ==
    /\ vs_pc = "input"
    /\ vs_summary' = RequestResult(vs_failed, vs_text)
    /\ vs_pc' = "generated"
    /\ UNCHANGED <<batchVars, promptVars, vs_failed, vs_text, vs_valid, vs_result>>

VsValidate ==
    /\ vs_pc = "generated"
    /\ vs_valid' = validate_summary(vs_summary)
    /\ vs_pc' = "validated"
    /\ UNCHANGED <<batchVars, promptVars, vs_failed, vs_text, vs_summary, vs_result>>

VsFinish ==
    /\ vs_pc = "validated"
    /\ vs_result' = Finish(vs_summary, vs_valid)
    /\ vs_pc' = "done"
    /\ UNCHANGED <<batchVars, promptVars, vs_failed, vs_text, vs_summary, vs_valid>>

VsNext == VsGenerate \/ VsValidate \/ VsFinish

ValidateSpec == VsInit /\ [][VsNext]_vars

\* ---- get_prompt_for_tag ----
GpTags == {None, NaN, "", "News", "Sports", "Other"}
GpKeys == {"", "News", "Sports"}
GpTables == UNION { [K -> {FREEFORM, BADFIELD}] : K \in SUBSET GpKeys }

GpInit ==
    /\ gp_pc = "input"
    /\ gp_tag \in GpTags
    /\ gp_table \in GpTables
    /\ gp_result = DEFAULT_PROMPT_TEMPLATE
    /\ BatchIdle
    /\ ValIdle

GpResolve ==
    /\ gp_pc = "input"
    /\ gp_result' = get_prompt_for_tag(gp_tag, gp_table)
    /\ gp_pc' = "done"
    /\ UNCHANGED <<batchVars, valVars, gp_tag, gp_table>>

GpNext == GpResolve

PromptSpec == GpInit /\ [][GpNext]_vars

-----------------------------------------------------------------------------
(* Properties *)

Logged(j) == \E n \in DOMAIN cbLog : cbLog[n].row = j
LoggedCount(j) == Cardinality({n \in DOMAIN cbLog : cbLog[n].row = j})

\* C1: the list process_data returns (and every prefix of it collected so
\* far) has one element per input row, element i being the summary computed
\* from row i's own answer, whatever the order in which the workers finished.
C1_OutputInInputOrder ==
    /\ Len(formatted_summaries) <= total_rows
    /\ \A i \in DOMAIN formatted_summaries :
           formatted_summaries[i] = SummaryOf(resp[i])
    /\ pcMain = "returned" => Len(formatted_summaries) = total_rows

\* C1 witness: a returned batch of at least two rows with different
\* summaries in which row 2 finished (called back) before row 1.
C1_Witness ==
    /\ pcMain = "returned"
    /\ total_rows >= 2
    /\ Len(cbLog) >= 2
    /\ cbLog[1].row = 2
    /\ cbLog[2].row = 1
    /\ formatted_summaries[1] # formatted_summaries[2]

\* C2: the completed values the callback receives (as update_progress shows
\* them) never decrease from one call to the next, and the value N occurs
\* exactly once, in the last call of a returned batch.
C2_ProgressMonotone ==
    /\ \A a, b \in DOMAIN cbLog :
           a < b => Shown(cbLog[a].current) <= Shown(cbLog[b].current)
    /\ Cardinality({n \in DOMAIN cbLog : Shown(cbLog[n].current) = total_rows}) <= 1
    /\ (pcMain = "returned" /\ status_callback /\ total_rows > 0) =>
           /\ Len(cbLog) = total_rows
           /\ Shown(cbLog[Len(cbLog)].current) = total_rows

\* C3: no unit of work aborts the batch: process_data never re-raises, and
\* when it returns it returns one result per row, each the summary of that
\* row's own answer.
C3_FailureIsolated ==
    /\ pcMain \notin {"unwinding", "raised"}
    /\ pcMain = "returned" =>
           /\ Len(formatted_summaries) = total_rows
           /\ \A i \in Rows : formatted_summaries[i] = SummaryOf(resp[i])

\* C4: every call of the progress callback shows a count in 1..total equal
\* to the number of units that had counted themselves complete when the
\* value was read (the calling unit included), and no unit calls back twice.
C4_CallbackCountsCompleted ==
    /\ \A n \in DOMAIN cbLog :
           /\ Shown(cbLog[n].current) \in 1..cbLog[n].total
           /\ Shown(cbLog[n].current) = cbLog[n].seen
    /\ \A j \in Rows : LoggedCount(j) <= 1

\* C5: at most 10 completion requests are in flight at any time, on every
\* host and for every number of rows.
C5_AtMostTenInFlight == InFlight <= 10

\* C6: if no unit raises, then whenever some row's request hangs every other
\* row's unit eventually completes: its future holds its result and, when a
\* callback was supplied, its callback has been called.
C6_HangStallsOnlyItsSlot ==
    [](\A k \in Rows : pc[k] \notin {"raised", "cancelled"}) =>
        \A j \in 1..MaxRows :
            (j \in Rows /\ hung # 0 /\ hung # j)
                ~> (j \in Rows /\ pc[j] = "done" /\ sets[j] = 1
                    /\ (status_callback => Logged(j)))

\* C6 witness: one request hangs while another row has completed and
\* called back.
C6_Witness ==
    /\ hung # 0
    /\ pc[hung] = "request"
    /\ status_callback
    /\ \E j \in Rows : j # hung /\ pc[j] = "done" /\ Logged(j)

HasLink(s) ==
    /\ \E i \in DOMAIN s : s[i] = LB
    /\ \E i \in DOMAIN s : i < Len(s) /\ s[i] = RB /\ s[i + 1] = LP
    /\ \E i \in DOMAIN s : s[i] = RP
HasSep(s) ==
    \E i \in DOMAIN s : i + 2 <= Len(s) /\ s[i] = " " /\ s[i + 1] = EM /\ s[i + 2] = " "
HasBold(s) ==
    \E i \in DOMAIN s : i < Len(s) /\ s[i] = STAR /\ s[i + 1] = STAR

\* C7 (as stated): every summary that begins with "Error: " fails
\* validate_summary and is replaced by the sentinel.
C7_ErrorAlwaysReplaced ==
    (vs_pc = "done" /\ StartsWith(vs_summary, ErrorPrefix)) =>
        (~vs_valid /\ vs_result = Sentinel)

\* C7 (amended): the "Error: " string of a failed request is replaced by the
\* sentinel exactly when its message lacks a link part, lacks "**", or has
\* no " -- " separator of its own and does not begin with "-- " (which the
\* prefix's final space completes); otherwise it is returned unchanged.
C7_ErrorReplacedUnlessMarked ==
    (vs_pc = "done" /\ vs_failed) =>
        /\ StartsWith(vs_summary, ErrorPrefix)
        /\ (vs_result = Sentinel) <=>
               ~(/\ HasLink(vs_text)
                 /\ HasBold(vs_text)
                 /\ (HasSep(vs_text) \/ StartsWith(vs_text, <<EM, " ">>)))
        /\ vs_result # Sentinel => vs_result = vs_summary

\* C7 witness: a failed request whose message has no bold marker, replaced
\* by the sentinel.
C7_Witness ==
    /\ vs_pc = "done"
    /\ vs_failed
    /\ HasLink(vs_text)
    /\ HasSep(vs_text)
    /\ ~HasBold(vs_text)
    /\ vs_result = Sentinel

\* C8: validate_summary is true exactly when the summary has a "[", a "]("
\* and a ")", the separator " -- " and a "**".
C8_ValidIffAllThree ==
    vs_pc \in {"validated", "done"} =>
        (vs_valid <=> (HasLink(vs_summary) /\ HasSep(vs_summary) /\ HasBold(vs_summary)))

\* C8 witness: a successful answer with all three features, found valid.
C8_Witness ==
    /\ vs_pc = "validated"
    /\ ~vs_failed
    /\ vs_valid
    /\ HasLink(vs_summary) /\ HasSep(vs_summary) /\ HasBold(vs_summary)

\* C9: get_prompt_for_tag returns table[tag] when the tag is present,
\* non-empty and a key of the table, and the default template otherwise.
C9_PromptResolved ==
    gp_pc = "done" =>
        gp_result = IF gp_tag # None /\ gp_tag # "" /\ gp_tag \in DOMAIN gp_table
                    THEN gp_table[gp_tag]
                    ELSE DEFAULT_PROMPT_TEMPLATE

\* C9 witness: an empty tag that is a key of the table resolves to the default.
C9_Witness ==
    /\ gp_pc = "done"
    /\ gp_tag = ""
    /\ "" \in DOMAIN gp_table
    /\ gp_result = DEFAULT_PROMPT_TEMPLATE

\* C10: no row is taken, requested or given its result more than once, also
\* after a failed request or an ill-formed answer, and when process_data
\* returns each row was taken, requested and given its result exactly once.
C10_ExactlyOnce ==
    /\ \A i \in Rows : takes[i] <= 1 /\ requests[i] <= 1 /\ sets[i] <= 1
    /\ \A i \in Rows : pc[i] = "done" => (takes[i] = 1 /\ requests[i] = 1 /\ sets[i] = 1)
    /\ pcMain = "returned" =>
           \A i \in Rows : takes[i] = 1 /\ requests[i] = 1 /\ sets[i] = 1

\* C10 witness: a returned batch in which one request failed and another
\* answer was ill-formed.
C10_Witness ==
    /\ pcMain = "returned"
    /\ \E i, j \in Rows :
           /\ i # j
           /\ resp[i].failed
           /\ ~resp[j].failed /\ formatted_summaries[j] = Sentinel

=============================================================================
